---- MODULE Spec2Model ----
(***************************************************************************)
(* Model of export.py, the Prometheus exporter for Xiaomi air purifiers:   *)
(* startup, per-purifier initialisation, and the poll loop that fetches    *)
(* each purifier's properties and sets the labelled gauges.                *)
(*                                                                         *)
(* Four specifications share the actions:                                  *)
(*   Spec        the whole program, over every purifier list of at most    *)
(*               MaxDevices entries and a few response lists;              *)
(*   MapperSpec  one fetch, over every response of at most MaxReadings     *)
(*               readings;                                                 *)
(*   ConfigSpec  the whole program, over every command line and config;    *)
(*   ScrapeSpec  the poll loop with labels() and set() as separate steps   *)
(*               and the server thread scraping between them.              *)
(***************************************************************************)
EXTENDS Integers, Sequences, FiniteSets, TLC

VARIABLES
    pc,            \* "start" | "init" | "poll" | "sleep" | "exited" | "crashed"
    idx,           \* position of the running `for p in purifiers` loop (1-based)
    purifiers,     \* config["purifiers"]: sequence of dicts
    metrics,       \* the gauges' children: <<gauge, label value>> -> value
    server,        \* TRUE once start_http_server has been called
    exit_code,     \* -1 while the process runs, else the process's exit status
    stderr,        \* what the process wrote on standard error
    log,           \* lines printed on standard output since the current pass began
    trace,         \* history: what happened to each purifier visited in the current pass
    prev,          \* history: the registry as it was when the current pass began
    failedEarlier, \* history: purifiers whose fetch failed in a pass before the current one
    properties,    \* the list the last get_properties_for_mapping() call returned
    argv,          \* sys.argv
    config,        \* the config file: its state and what json.load makes of it
    polling_interval, \* seconds between two passes, -1 before line 63 has run
    sleeping,      \* the argument of the running time.sleep call, -1 when none runs
    latest,        \* history: <<metric, name>> -> the number of the last status-0 reading
    cur_status,    \* the dict `status` of line 99 while the gauge lines run
    line,          \* the gauge line (1..11) that runs next, 0 outside lines 102-112
    labelled,      \* TRUE when labels() of that line has returned and set() has not begun
    scraped,       \* what the last scrape returned for the point it read
    written,       \* history: every <<metric, name, number>> a set() call has written
    returned       \* history: every <<metric, name>> a fetch returned with status 0

\* the command line and the config file, and what startup reads from them
inputs == <<argv, config, polling_interval>>
\* the state of the gauge lines taken one library call at a time, and of scrapes
fine == <<cur_status, line, labelled, scraped, written, returned>>

vars == <<pc, idx, purifiers, metrics, server, exit_code, stderr, log, trace,
          prev, failedEarlier, properties, inputs, sleeping, latest, fine>>

(***************************************************************************)
(* Bounds of the exploration.                                              *)
(***************************************************************************)
MaxDevices == 2      \* longest purifier list
MaxReadings == 2     \* longest list of readings MapperSpec draws

Names == {"a", "b"}

(***************************************************************************)
(* Python values. A value is tagged with its type; v is its numeric value. *)
(***************************************************************************)
Bool(b) == [t |-> "bool", v |-> IF b THEN 1 ELSE 0]
Num(n) == [t |-> "num", v |-> n]
Text == [t |-> "str", v |-> 0]          \* a non-empty, non-numeric string

\* bool(x)
Truthy(x) == x.t = "str" \/ x.v # 0
\* float(x) succeeds
Floatable(x) == x.t # "str"
\* float(x)
Float(x) == x.v

\* dict with key k set to v
Put(d, k, v) == [x \in DOMAIN d \cup {k} |-> IF x = k THEN v ELSE d[x]]

(***************************************************************************)
(* MIOT_MAPPING and the gauges.                                            *)
(***************************************************************************)
\* The keys of MIOT_MAPPING, in the order of the dict.
MIOT_MAPPING ==
    <<"power", "fault", "mode", "humidity", "aqi", "temperature",
      "filter_life_remaining", "filter_used_time", "filter_left_time",
      "fan_speed_rpm", "favorite_level">>

Range(f) == {f[x] : x \in DOMAIN f}

Gauges ==
    {"mi_purifier_power", "mi_purifier_mode", "mi_purifier_aqi", "mi_purifier_temp",
     "mi_purifier_humidity", "mi_purifier_fault", "mi_purifier_fan_speed_rpm",
     "mi_purifier_filter_life_remaining_percent", "mi_purifier_filter_used_time",
     "mi_purifier_filter_left_time", "mi_purifier_favorite_level"}

\* Eleven lines that all write the value as it is, power too.
GaugeWritesRawPower ==
    LET keys == <<"power", "mode", "aqi", "temperature", "humidity", "fault",
                  "fan_speed_rpm", "filter_life_remaining", "filter_used_time",
                  "filter_left_time", "favorite_level">>
        gauges == <<"mi_purifier_power", "mi_purifier_mode", "mi_purifier_aqi",
                    "mi_purifier_temp", "mi_purifier_humidity", "mi_purifier_fault",
                    "mi_purifier_fan_speed_rpm",
                    "mi_purifier_filter_life_remaining_percent",
                    "mi_purifier_filter_used_time", "mi_purifier_filter_left_time",
                    "mi_purifier_favorite_level">>
    IN [k \in DOMAIN keys |-> [key |-> keys[k], gauge |-> gauges[k], truth |-> FALSE]]

\* Eleven lines of which the temperature line and the humidity line set each
\* other's gauge.
GaugeWritesSwapped ==
    LET keys == <<"power", "mode", "aqi", "temperature", "humidity", "fault",
                  "fan_speed_rpm", "filter_life_remaining", "filter_used_time",
                  "filter_left_time", "favorite_level">>
        gauges == <<"mi_purifier_power", "mi_purifier_mode", "mi_purifier_aqi",
                    "mi_purifier_humidity", "mi_purifier_temp", "mi_purifier_fault",
                    "mi_purifier_fan_speed_rpm",
                    "mi_purifier_filter_life_remaining_percent",
                    "mi_purifier_filter_used_time", "mi_purifier_filter_left_time",
                    "mi_purifier_favorite_level">>
    IN [k \in DOMAIN keys |-> [key |-> keys[k], gauge |-> gauges[k], truth |-> k = 1]]

\* The eleven `if key in status: gauge.labels(name).set(...)` lines, in order.
\* truth marks the one line that writes `1 if value else 0`.
GaugeWrites ==
    << [key |-> "power", gauge |-> "mi_purifier_power", truth |-> TRUE],
       [key |-> "mode", gauge |-> "mi_purifier_mode", truth |-> FALSE],
       [key |-> "aqi", gauge |-> "mi_purifier_aqi", truth |-> FALSE],
       [key |-> "temperature", gauge |-> "mi_purifier_temp", truth |-> FALSE],
       [key |-> "humidity", gauge |-> "mi_purifier_humidity", truth |-> FALSE],
       [key |-> "fault", gauge |-> "mi_purifier_fault", truth |-> FALSE],
       [key |-> "fan_speed_rpm", gauge |-> "mi_purifier_fan_speed_rpm", truth |-> FALSE],
       [key |-> "filter_life_remaining",
        gauge |-> "mi_purifier_filter_life_remaining_percent", truth |-> FALSE],
       [key |-> "filter_used_time", gauge |-> "mi_purifier_filter_used_time", truth |-> FALSE],
       [key |-> "filter_left_time", gauge |-> "mi_purifier_filter_left_time", truth |-> FALSE],
       [key |-> "favorite_level", gauge |-> "mi_purifier_favorite_level", truth |-> FALSE] >>

(***************************************************************************)
(* A purifier entry is a dict: keys is its key set; name and object are    *)
(* the values under "name" and "object" (meaningful when the key is there).*)
(* object is "None", "handle" (a MiotDevice) or "junk" (any other value).  *)
(***************************************************************************)
Entry(k, n, o) == [keys |-> k, name |-> n, object |-> o]

Entries ==
    { Entry({"name", "ip", "token"}, n, "unset") : n \in Names }
    \cup { Entry({"name", "ip"}, "a", "unset"),
           Entry({"ip", "token"}, "", "unset"),
           Entry({"name", "ip", "object"}, "b", "junk"),
           Entry({"ip", "token", "object"}, "", "junk"),
           Entry({"name", "token", "object"}, "a", "None") }

RECURSIVE SeqsUpTo(_, _)
SeqsUpTo(S, n) ==
    IF n = 0 THEN {<<>>}
    ELSE LET shorter == SeqsUpTo(S, n - 1)
         IN shorter \cup {Append(s, x) : s \in {t \in shorter : Len(t) = n - 1}, x \in S}

PurifierLists == SeqsUpTo(Entries, MaxDevices) \ {<<>>}

\* all(k in p for k in ["name", "ip", "token"])
Complete(p) == {"name", "ip", "token"} \subseteq p.keys

\* p.get("object")
GetObject(p) == IF "object" \in p.keys THEN p.object ELSE "None"

\* A test of the key alone, which lets a None object through.
SkippedIfUnset(p) == "object" \notin p.keys

\* A backoff: a purifier whose fetch failed in an earlier pass is passed over too.
SkippedAfterFailure(p) ==
    GetObject(p) = "None" \/ \E e \in failedEarlier : purifiers[e] = p

\* `if p.get("object") is None: continue`
Skipped(p) == GetObject(p) = "None"

(***************************************************************************)
(* A property reading is a dict with keys among did, code, value.          *)
(***************************************************************************)
Reading(h, d, c, v) == [has |-> h, did |-> d, code |-> c, value |-> v]
Full == {"did", "code", "value"}

Rd(d, c, v) == Reading(Full, d, c, v)
\* a property the device could not read: an error code and no value
Unread(d) == Reading({"did", "code"}, d, -4001, Num(0))

\* The lists a fetch returns in Spec.
Responses ==
    { << Rd("power", 0, Bool(TRUE)), Rd("aqi", 0, Num(12)) >>,
      << Rd("power", 0, Bool(FALSE)), Unread("aqi") >>,
      << Rd("bogus", 0, Num(99)), Rd("power", 0, Bool(FALSE)) >>,
      << Rd("power", 0, Bool(FALSE)), Rd("aqi", 0, Text) >>,
      << Reading({"did", "code"}, "power", 0, Num(0)) >> }

\* The readings and lists MapperSpec draws.
Values == {Bool(TRUE), Bool(FALSE), Num(12), Text}
MapperReadings ==
    { Rd(d, 0, Num(12)) : d \in Range(MIOT_MAPPING) }
    \cup { Rd(d, c, v) : d \in {"power", "aqi", "bogus"}, c \in {0, -4001}, v \in Values }
    \cup { Unread(d) : d \in {"power", "aqi"} }
    \cup { Reading({"did", "value"}, "aqi", 0, Num(12)),
           Reading({"did", "code"}, "power", 0, Num(0)),
           Reading({"code", "value"}, "", 0, Num(12)) }

MapperResponses == SeqsUpTo(MapperReadings, MaxReadings)

\* A filter that keeps every reading that carries a code.
CodeIsPresent(r) == "code" \in r.has

\* A filter that takes a reading without a code for a good one.
CodeAbsentOrZero(r) == "code" \notin r.has \/ r.code = 0

\* prop.get('code') == 0
CodeIsZero(r) == "code" \in r.has /\ r.code = 0

\* A comprehension that looks every identifier up in the mapping.
RECURSIVE BuildStatusStrict(_)
BuildStatusStrict(props) ==
    IF props = <<>> THEN [raised |-> "", dict |-> <<>>]
    ELSE LET front == BuildStatusStrict(SubSeq(props, 1, Len(props) - 1))
             r == props[Len(props)]
         IN IF front.raised # "" THEN front
            ELSE IF ~CodeIsZero(r) THEN front
            ELSE IF ~({"did", "value"} \subseteq r.has) \/ r.did \notin Range(MIOT_MAPPING)
                 THEN [raised |-> "KeyError", dict |-> front.dict]
            ELSE [raised |-> "", dict |-> Put(front.dict, r.did, r.value)]

\* {prop['did']: prop['value'] for prop in properties if prop.get('code') == 0}
\* raised is "" or the exception the comprehension raises
RECURSIVE BuildStatus(_)
BuildStatus(props) ==
    IF props = <<>> THEN [raised |-> "", dict |-> <<>>]
    ELSE LET front == BuildStatus(SubSeq(props, 1, Len(props) - 1))
             r == props[Len(props)]
         IN IF front.raised # "" THEN front
            ELSE IF ~CodeIsZero(r) THEN front
            ELSE IF ~({"did", "value"} \subseteq r.has)
                 THEN [raised |-> "KeyError", dict |-> front.dict]
            ELSE [raised |-> "", dict |-> Put(front.dict, r.did, r.value)]

\* gauge.labels(name): the child is created with value 0 when it does not exist
Labels(reg, gauge, name) ==
    IF <<gauge, name>> \in DOMAIN reg THEN reg ELSE Put(reg, <<gauge, name>>, 0)

\* The gauge lines from the k-th on, applied to registry reg.
RECURSIVE SetGauges(_, _, _, _)
SetGauges(reg, status, name, k) ==
    IF k > Len(GaugeWrites) THEN [raised |-> "", reg |-> reg]
    ELSE LET w == GaugeWrites[k]
         IN IF w.key \notin DOMAIN status THEN SetGauges(reg, status, name, k + 1)
            ELSE LET arg == IF w.truth
                            THEN Num(IF Truthy(status[w.key]) THEN 1 ELSE 0)
                            ELSE status[w.key]
                     child == Labels(reg, w.gauge, name)
                 IN IF ~Floatable(arg) THEN [raised |-> "ValueError", reg |-> child]
                    ELSE SetGauges(Put(child, <<w.gauge, name>>, Float(arg)),
                                   status, name, k + 1)

\* A try block that sets only the gauges that have no child for the name yet.
UpdateKeepOld(reg, props, name) ==
    LET st == BuildStatus(props)
        u == SetGauges(reg, st.dict, name, 1)
    IN IF st.raised # "" THEN [raised |-> st.raised, reg |-> reg]
       ELSE [raised |-> u.raised,
             reg |-> [key \in DOMAIN u.reg |->
                         IF key \in DOMAIN reg THEN reg[key] ELSE u.reg[key]]]

\* A try block that empties the registry before it sets the gauges.
UpdateFresh(reg, props, name) ==
    LET st == BuildStatus(props)
    IN IF st.raised # "" THEN [raised |-> st.raised, reg |-> reg]
       ELSE SetGauges(<<>>, st.dict, name, 1)

\* The body of the try block once the fetch has returned props.
Update(reg, props, name) ==
    LET st == BuildStatus(props)
    IN IF st.raised # "" THEN [raised |-> st.raised, reg |-> reg]
       ELSE SetGauges(reg, st.dict, name, 1)

\* Only the first except clause.
CaughtDeviceOnly(e) == e = "DeviceException"

\* The exceptions the two except clauses of the poll loop catch.
Caught(e) == e \in {"DeviceException", "OSError"}

\* What p["object"].get_properties_for_mapping() can do: raise e, or return props.
FetchOutcomes(obj) ==
    IF obj = "handle"
    THEN {[raised |-> e, props |-> <<>>] : e \in {"DeviceException", "OSError"}}
         \cup {[raised |-> "", props |-> r] : r \in Responses}
    ELSE {[raised |-> "AttributeError", props |-> <<>>]}

\* The loop variable after purifier i has been handled.
NextIdx(i) == i + 1

\* The line an except clause prints.
ErrorLine(e, name) ==
    [kind |-> IF e = "DeviceException" THEN "Error updating" ELSE "OS Error (network?)",
     name |-> name]

Visit(i, o) == Append(trace, [dev |-> i, outcome |-> o])
Failures == {"DeviceException", "OSError"}
FailedIn(tr) == {tr[k].dev : k \in {j \in DOMAIN tr : tr[j].outcome \in Failures}}

(***************************************************************************)
(* Startup: the checks of the command line and of the config file.         *)
(***************************************************************************)
Argcs == {1, 2, 3}
Files == {"ok", "missing", "not json"}
PortArgs == {"8000", "http"}
PurifiersFields == {"absent", "not a list", "empty", "list"}

\* the startup checks without the check of the port argument
StartupErrorPortUnchecked(argc, file, portArg, field) ==
    IF argc < 2 THEN "JSON config file must be passed as the first argument"
    ELSE IF file # "ok" THEN "Error reading config file"
    ELSE IF field # "list" THEN "No 'purifiers' list found in the JSON config file"
    ELSE ""

\* The diagnostic the startup checks exit with, "" when they all pass.
StartupError(argc, file, portArg, field) ==
    IF argc < 2 THEN "JSON config file must be passed as the first argument"
    ELSE IF file # "ok" THEN "Error reading config file"
    ELSE IF argc > 2 /\ portArg # "8000" THEN "Error: Port number must be an integer."
    ELSE IF field # "list" THEN "No 'purifiers' list found in the JSON config file"
    ELSE ""

\* sys.argv of a command line of argc words
Argv(argc, portArg) ==
    IF argc = 1 THEN <<"export.py">>
    ELSE IF argc = 2 THEN <<"export.py", "config.json">>
    ELSE <<"export.py", "config.json", portArg>>
Argvs == {Argv(argc, portArg) : argc \in Argcs, portArg \in PortArgs}
\* sys.argv[2], "" when the command line has none
PortArg(a) == IF Len(a) > 2 THEN a[3] ELSE ""

\* The config file: keys are the optional keys it has, list its "purifiers" when
\* the file parses and that field is a non-empty list.
Config(file, field, keys, list) ==
    [file |-> file, purifiers_field |-> field, keys |-> keys,
     polling_interval_seconds |-> IF "polling_interval_seconds" \in keys THEN 5 ELSE 0,
     purifiers |-> IF file = "ok" /\ field = "list" THEN list ELSE <<>>]
Configs(lists, keysets) ==
    {Config(file, field, keys, list) :
        file \in Files, field \in PurifiersFields, keys \in keysets, list \in lists}

DefaultInterval == 60
\* the interval no config makes the program use
IntervalIgnoringConfig(cfg) == DefaultInterval
\* config.get('polling_interval_seconds', 60)
PollingInterval(cfg) ==
    IF "polling_interval_seconds" \in cfg.keys THEN cfg.polling_interval_seconds
    ELSE DefaultInterval

\* the diagnostic of the running process's command line and config file
Diagnostic == StartupError(Len(argv), config.file, PortArg(argv), config.purifiers_field)

\* a registry whose gauges show 0 for every name
RegistryZeroed == [key \in Gauges \X Names |-> 0]
\* the registry once lines 33-43 have run: a labelled gauge has no child
RegistryAtStart == <<>>

\* The process before its first statement, whatever its command line and config.
Start ==
    /\ pc = "start"
    /\ idx = 1
    /\ purifiers = <<>>
    /\ metrics = RegistryAtStart
    /\ server = FALSE
    /\ exit_code = -1
    /\ stderr = ""
    /\ log = <<>>
    /\ trace = <<>>
    /\ prev = <<>>
    /\ failedEarlier = {}
    /\ properties = <<>>
    /\ polling_interval = -1
    /\ sleeping = -1
    /\ latest = <<>>
    /\ cur_status = <<>>
    /\ line = 0
    /\ labelled = FALSE
    /\ scraped = <<>>
    /\ written = {}
    /\ returned = {}

\* Every config of at most MaxDevices purifiers, without the optional keys, under
\* every command line but the one whose port argument is an integer.
Init ==
    /\ Start
    /\ argv \in {a \in Argvs : PortArg(a) # "8000"}
    /\ config \in Configs(PurifierLists, {{}})

\* exit_with_error
StartupFails ==
    /\ pc = "start"
    /\ Diagnostic # ""
    /\ stderr' = Diagnostic
    /\ pc' = "exited"
    /\ exit_code' = 1
    /\ UNCHANGED <<idx, purifiers, metrics, server, log, trace, prev, failedEarlier,
                   properties, inputs, sleeping, latest, fine>>

\* purifiers = config["purifiers"]
StartupPasses ==
    /\ pc = "start"
    /\ Diagnostic = ""
    /\ purifiers' = config.purifiers
    /\ polling_interval' = PollingInterval(config)
    /\ pc' = "init"
    /\ idx' = 1
    /\ UNCHANGED <<metrics, server, exit_code, stderr, log, trace, prev, failedEarlier,
                   properties, argv, config, sleeping, latest, fine>>

\* One iteration of the initialisation loop.
InitPurifier ==
    /\ pc = "init"
    /\ idx <= Len(purifiers)
    /\ LET p == purifiers[idx]
       IN \/ /\ ~Complete(p)
             /\ log' = Append(log, [kind |-> "Warning: Skipping", name |-> ""])
             /\ UNCHANGED purifiers
          \/ /\ Complete(p)
             /\ \E made \in {"handle", "None"} :
                   /\ purifiers' = [purifiers EXCEPT ![idx] =
                                       Entry(p.keys \cup {"object"}, p.name, made)]
                   /\ log' = IF made = "handle"
                             THEN Append(log, [kind |-> "Initializing", name |-> p.name])
                             ELSE log \o << [kind |-> "Initializing", name |-> p.name],
                                            [kind |-> "Warning: Could not connect",
                                             name |-> p.name] >>
    /\ idx' = idx + 1
    /\ UNCHANGED <<pc, metrics, server, exit_code, stderr, trace, prev, failedEarlier,
                   properties, inputs, sleeping, latest, fine>>

\* start_http_server(port_number), then the first pass begins
StartServer ==
    /\ pc = "init"
    /\ idx > Len(purifiers)
    /\ server' = TRUE
    /\ pc' = "poll"
    /\ idx' = 1
    /\ log' = <<>>
    /\ UNCHANGED <<purifiers, metrics, exit_code, stderr, trace, prev, failedEarlier,
                   properties, inputs, sleeping, latest, fine>>

(***************************************************************************)
(* The poll loop.                                                          *)
(***************************************************************************)
\* The loop moves on to the next purifier, or to time.sleep after the last.
Continue ==
    /\ idx' = NextIdx(idx)
    /\ pc' = IF NextIdx(idx) > Len(purifiers) THEN "sleep" ELSE "poll"
    /\ sleeping' = IF NextIdx(idx) > Len(purifiers) THEN polling_interval ELSE -1
    /\ UNCHANGED <<exit_code, stderr>>

\* An exception nothing catches ends the process with a traceback.
Raise(e) ==
    /\ pc' = "crashed"
    /\ exit_code' = 1
    /\ stderr' = e
    /\ UNCHANGED <<idx, log, sleeping>>

\* `if p.get("object") is None: continue`
SkipPurifier ==
    /\ pc = "poll"
    /\ Skipped(purifiers[idx])
    /\ trace' = Visit(idx, "skip")
    /\ Continue
    /\ UNCHANGED <<purifiers, metrics, server, log, prev, failedEarlier, properties,
                   inputs, latest, fine>>

\* The indices of the status-0 readings of props that name a property of the
\* mapping table.
ZeroReadings(props) ==
    {k \in DOMAIN props : /\ "code" \in props[k].has /\ props[k].code = 0
                          /\ "did" \in props[k].has
                          /\ props[k].did \in Range(MIOT_MAPPING)}
\* lat with, for purifier name n, the value of the last status-0 reading props has
\* of each property
Observed(lat, props, n) ==
    LET last(d) == CHOOSE k \in ZeroReadings(props) :
                      /\ props[k].did = d
                      /\ \A j \in ZeroReadings(props) : props[j].did = d => j <= k
    IN [key \in DOMAIN lat \cup {<<props[k].did, n>> : k \in ZeroReadings(props)} |->
           IF key[2] = n /\ \E k \in ZeroReadings(props) : props[k].did = key[1]
           THEN props[last(key[1])].value
           ELSE lat[key]]

\* The rest of the loop body, the fetch doing what outcome o says.
PollWith(o) ==
    /\ pc = "poll"
    /\ ~Skipped(purifiers[idx])
    /\ LET p == purifiers[idx]
       IN IF "name" \notin p.keys
          THEN /\ trace' = Visit(idx, "no name")
               /\ Raise("KeyError")
               /\ UNCHANGED <<metrics, properties, latest>>
          ELSE IF o.raised # ""
          THEN /\ trace' = Visit(idx, o.raised)
               /\ UNCHANGED <<metrics, properties, latest>>
               /\ IF Caught(o.raised)
                  THEN /\ log' = Append(log, ErrorLine(o.raised, p.name))
                       /\ Continue
                  ELSE Raise(o.raised)
          ELSE LET u == Update(metrics, o.props, p.name)
               IN /\ properties' = o.props
                  /\ metrics' = u.reg
                  /\ IF u.raised = ""
                     THEN /\ trace' = Visit(idx, "ok")
                          /\ log' = log
                          /\ latest' = Observed(latest, o.props, p.name)
                          /\ Continue
                     ELSE /\ trace' = Visit(idx, u.raised)
                          /\ UNCHANGED latest
                          /\ IF Caught(u.raised)
                             THEN /\ log' = Append(log, ErrorLine(u.raised, p.name))
                                  /\ Continue
                             ELSE Raise(u.raised)
    /\ UNCHANGED <<purifiers, server, prev, failedEarlier, inputs, fine>>

PollPurifier ==
    /\ pc = "poll"
    /\ \E o \in FetchOutcomes(GetObject(purifiers[idx])) : PollWith(o)

\* time.sleep(polling_interval) returns and the next pass begins
WakeUp ==
    /\ pc = "sleep"
    /\ pc' = "poll"
    /\ idx' = 1
    /\ trace' = <<>>
    /\ log' = <<>>
    /\ prev' = metrics
    /\ failedEarlier' = failedEarlier \cup FailedIn(trace)
    /\ sleeping' = -1
    /\ UNCHANGED <<purifiers, metrics, server, exit_code, stderr, properties, inputs,
                   latest, fine>>

Next ==
    \/ StartupFails
    \/ StartupPasses
    \/ InitPurifier
    \/ StartServer
    \/ SkipPurifier
    \/ PollPurifier
    \/ WakeUp

Spec == Init /\ [][Next]_vars

(***************************************************************************)
(* MapperSpec: one fetch of one purifier, over every list of readings of   *)
(* at most MaxReadings readings, from a registry earlier passes have left. *)
(***************************************************************************)
Priors ==
    { <<>>,
      Put(Put(Put(Put(<<>>, <<"mi_purifier_power", "a">>, 0),
                  <<"mi_purifier_aqi", "a">>, 7),
              <<"mi_purifier_power", "b">>, 1),
          <<"mi_purifier_temp", "b">>, 3) }

MapperInit ==
    /\ pc = "poll"
    /\ idx = 1
    /\ purifiers = << Entry({"name", "ip", "token", "object"}, "a", "handle") >>
    /\ metrics \in Priors
    /\ prev = metrics
    /\ server = TRUE
    /\ exit_code = -1
    /\ stderr = ""
    /\ log = <<>>
    /\ trace = <<>>
    /\ failedEarlier = {}
    /\ properties = <<>>
    /\ argv = Argv(2, "")
    /\ config = Config("ok", "list", {}, << Entry({"name", "ip", "token"}, "a", "unset") >>)
    /\ polling_interval = PollingInterval(config)
    /\ sleeping = -1
    /\ latest = <<>>
    /\ cur_status = <<>>
    /\ line = 0
    /\ labelled = FALSE
    /\ scraped = <<>>
    /\ written = {}
    /\ returned = {}

MapperFetch ==
    /\ pc = "poll"
    /\ \E r \in MapperResponses : PollWith([raised |-> "", props |-> r])

MapperNext == MapperFetch

MapperSpec == MapperInit /\ [][MapperNext]_vars

(***************************************************************************)
(* ConfigSpec: the whole program under every command line and every config *)
(* file, with and without the polling interval key, over three lists of    *)
(* complete entries.                                                       *)
(***************************************************************************)
ConfigLists ==
    { << Entry({"name", "ip", "token"}, "a", "unset") >>,
      << Entry({"name", "ip", "token"}, "a", "unset"),
         Entry({"name", "ip", "token"}, "b", "unset") >>,
      << Entry({"name", "ip", "token"}, "b", "unset"),
         Entry({"name", "ip", "token"}, "b", "unset") >> }

ConfigInit ==
    /\ Start
    /\ argv \in Argvs
    /\ config \in Configs(ConfigLists, {{}, {"polling_interval_seconds"}})

ConfigSpec == ConfigInit /\ [][Next]_vars

(***************************************************************************)
(* ScrapeSpec: the poll loop with each gauge line taken as the two library *)
(* calls it is, labels() and then set(), while the server thread that      *)
(* start_http_server started serves scrapes between any two of them.       *)
(***************************************************************************)
\* the first gauge line from the k-th on whose key is in st, Len + 1 when none
NextLine(st, k) ==
    LET applies == {j \in k..Len(GaugeWrites) : GaugeWrites[j].key \in DOMAIN st}
    IN IF applies = {} THEN Len(GaugeWrites) + 1
       ELSE CHOOSE j \in applies : \A i \in applies : j <= i

ScrapeLists ==
    { << Entry({"name", "ip", "token", "object"}, "a", "handle") >>,
      << Entry({"name", "ip", "token", "object"}, "a", "handle"),
         Entry({"name", "ip", "token", "object"}, "b", "handle") >>,
      << Entry({"name", "ip", "token", "object"}, "b", "None"),
         Entry({"name", "ip", "token", "object"}, "a", "handle") >> }

\* The process when start_http_server has returned.
ScrapeInit ==
    /\ pc = "poll"
    /\ idx = 1
    /\ purifiers \in ScrapeLists
    /\ metrics = RegistryAtStart
    /\ prev = metrics
    /\ server = TRUE
    /\ exit_code = -1
    /\ stderr = ""
    /\ log = <<>>
    /\ trace = <<>>
    /\ failedEarlier = {}
    /\ properties = <<>>
    /\ argv = Argv(2, "")
    /\ config = Config("ok", "list", {},
                       [k \in DOMAIN purifiers |->
                           Entry({"name", "ip", "token"}, purifiers[k].name, "unset")])
    /\ polling_interval = PollingInterval(config)
    /\ sleeping = -1
    /\ latest = <<>>
    /\ cur_status = <<>>
    /\ line = 0
    /\ labelled = FALSE
    /\ scraped = <<>>
    /\ written = {}
    /\ returned = {}

\* Lines 98-99: the fetch returns props and the comprehension builds status.
BuildThenGauges(props) ==
    LET p == purifiers[idx]
        st == BuildStatus(props)
    IN /\ properties' = props
       /\ returned' = returned \cup {<<props[k].did, p.name>> : k \in ZeroReadings(props)}
       /\ IF st.raised # ""
          THEN /\ trace' = Visit(idx, st.raised)
               /\ Raise(st.raised)
               /\ UNCHANGED <<cur_status, line>>
          ELSE /\ cur_status' = st.dict
               /\ line' = NextLine(st.dict, 1)
               /\ pc' = "gauges"
               /\ UNCHANGED <<idx, exit_code, stderr, log, sleeping, trace>>
       /\ UNCHANGED <<purifiers, metrics, server, prev, failedEarlier, inputs, latest,
                      labelled, scraped, written>>

\* Lines 96-99 and the except clauses.
Fetch ==
    /\ pc = "poll"
    /\ ~Skipped(purifiers[idx])
    /\ \E o \in FetchOutcomes(GetObject(purifiers[idx])) :
          IF "name" \in purifiers[idx].keys /\ o.raised = ""
          THEN BuildThenGauges(o.props)
          ELSE PollWith(o)

\* gauge.labels(purifier_name) of the gauge line that runs
LabelsCall ==
    /\ pc = "gauges"
    /\ line <= Len(GaugeWrites)
    /\ ~labelled
    /\ metrics' = Labels(metrics, GaugeWrites[line].gauge, purifiers[idx].name)
    /\ labelled' = TRUE
    /\ UNCHANGED <<pc, idx, purifiers, server, exit_code, stderr, log, trace, prev,
                   failedEarlier, properties, inputs, sleeping, latest, cur_status, line,
                   scraped, written, returned>>

\* .set(...) on the child labels() returned
SetCall ==
    /\ pc = "gauges"
    /\ labelled
    /\ LET w == GaugeWrites[line]
           name == purifiers[idx].name
           arg == IF w.truth
                  THEN Num(IF Truthy(cur_status[w.key]) THEN 1 ELSE 0)
                  ELSE cur_status[w.key]
       IN IF ~Floatable(arg)
          THEN /\ trace' = Visit(idx, "ValueError")
               /\ Raise("ValueError")
               /\ UNCHANGED <<metrics, written, line, labelled>>
          ELSE /\ metrics' = Put(metrics, <<w.gauge, name>>, Float(arg))
               /\ written' = written \cup {<<w.gauge, name, Float(arg)>>}
               /\ line' = NextLine(cur_status, line + 1)
               /\ labelled' = FALSE
               /\ UNCHANGED <<pc, idx, exit_code, stderr, log, trace, sleeping>>
    /\ UNCHANGED <<purifiers, server, prev, failedEarlier, properties, inputs, latest,
                   cur_status, scraped, returned>>

\* The gauge lines are done: the for loop moves on.
EndOfTry ==
    /\ pc = "gauges"
    /\ line > Len(GaugeWrites)
    /\ trace' = Visit(idx, "ok")
    /\ latest' = Observed(latest, properties, purifiers[idx].name)
    /\ Continue
    /\ line' = 0
    /\ cur_status' = <<>>
    /\ UNCHANGED <<purifiers, metrics, server, log, prev, failedEarlier, properties,
                   inputs, labelled, scraped, written, returned>>

\* The gauges whose samples the scrapes of ScrapeSpec read: the two the lists
\* of Responses can set, and one they cannot.
ScrapedGauges == {"mi_purifier_power", "mi_purifier_aqi", "mi_purifier_mode"}

\* The server thread answers a scrape: the sample of one point, read at once.
Scrape ==
    /\ server
    /\ pc \in {"poll", "gauges", "sleep"}
    /\ \E g \in ScrapedGauges, n \in Names :
          scraped' = [gauge |-> g, name |-> n,
                      sample |-> IF <<g, n>> \in DOMAIN metrics
                                 THEN <<metrics[<<g, n>>]>> ELSE <<>>]
    /\ UNCHANGED <<pc, idx, purifiers, metrics, server, exit_code, stderr, log, trace,
                   prev, failedEarlier, properties, inputs, sleeping, latest, cur_status,
                   line, labelled, written, returned>>

ScrapeNext ==
    \/ SkipPurifier
    \/ Fetch
    \/ LabelsCall
    \/ SetCall
    \/ EndOfTry
    \/ WakeUp
    \/ Scrape

ScrapeSpec == ScrapeInit /\ [][ScrapeNext]_vars

(***************************************************************************)
(* Vocabulary of the properties.                                           *)
(***************************************************************************)
Last(s) == s[Len(s)]
NameOf(i) == purifiers[i].name

\* the point (gauge g, label n) of registry reg: whether it exists, and its value
Point(reg, g, n) ==
    IF <<g, n>> \in DOMAIN reg THEN [set |-> TRUE, v |-> reg[<<g, n>>]]
    ELSE [set |-> FALSE, v |-> 0]

\* the purifier has no connection handle
HandleAbsent(p) == ~("object" \in p.keys /\ p.object # "None")

\* the reading carries status code 0
StatusZero(r) == "code" \in r.has /\ r.code = 0
\* the reading has its identifier and its value
WellFormed(r) == {"did", "value"} \subseteq r.has
\* a status-0 reading of a property of the mapping table
Recognised(r) == StatusZero(r) /\ WellFormed(r) /\ r.did \in Range(MIOT_MAPPING)

GaugeOf(key) == GaugeWrites[CHOOSE k \in DOMAIN GaugeWrites : GaugeWrites[k].key = key].gauge

\* the number reading r puts on its gauge
Exported(r) == IF r.did = "power" THEN (IF Truthy(r.value) THEN 1 ELSE 0) ELSE r.value.v

\* every recognised reading of props (the last one of each property) is on its gauge
Published(props, reg, n) ==
    \A k \in DOMAIN props :
        (/\ Recognised(props[k])
         /\ \A j \in DOMAIN props : (j > k /\ Recognised(props[j])) => props[j].did # props[k].did)
        => Point(reg, GaugeOf(props[k].did), n) = [set |-> TRUE, v |-> Exported(props[k])]

\* the points of reg2 that are not as they are in reg1
Changed(reg1, reg2) ==
    {key \in DOMAIN reg2 : Point(reg1, key[1], key[2]) # Point(reg2, key[1], key[2])}

Malformed == {"KeyError", "ValueError"}
Polling == server /\ pc \in {"poll", "sleep"}

(***************************************************************************)
(* C1: a fetch that fails with a DeviceException or an OSError is logged   *)
(* with the purifier's name and does not stop the pass: the loop moves on  *)
(* to the next purifier, every later purifier with a handle is fetched in  *)
(* the same pass, and a purifier fetched well has its readings on its      *)
(* gauges, in this pass and in every later one.                            *)
(***************************************************************************)
C1_FailureDoesNotStopCycle ==
    /\ \A k \in DOMAIN trace :
          trace[k].outcome \in Failures =>
             LET d == trace[k].dev
             IN /\ \E l \in DOMAIN log :
                      /\ log[l].name = NameOf(d)
                      /\ log[l].kind = IF trace[k].outcome = "OSError"
                                       THEN "OS Error (network?)" ELSE "Error updating"
                /\ IF k = Len(trace)
                   THEN /\ pc = IF d = Len(purifiers) THEN "sleep" ELSE "poll"
                        /\ idx = d + 1
                        /\ exit_code = -1
                   ELSE trace[k + 1].dev = d + 1
                /\ pc = "sleep" =>
                      \A j \in (d + 1)..Len(purifiers) :
                          ~HandleAbsent(purifiers[j]) =>
                              \E m \in DOMAIN trace :
                                  m > k /\ trace[m].dev = j /\ trace[m].outcome # "skip"
    /\ (trace # <<>> /\ Last(trace).outcome = "ok") =>
          Published(properties, metrics, NameOf(Last(trace).dev))

\* A later pass: the first purifier, which failed before, fails again with an OSError
\* and the second one is fetched and its gauges are rewritten.
C1_Witness ==
    /\ pc = "sleep"
    /\ Len(trace) = 2
    /\ 1 \in failedEarlier
    /\ trace[1].outcome = "OSError"
    /\ trace[2].outcome = "ok"
    /\ NameOf(1) # NameOf(2)
    /\ Point(prev, "mi_purifier_power", NameOf(2)) = [set |-> TRUE, v |-> 1]
    /\ Point(metrics, "mi_purifier_power", NameOf(2)) = [set |-> TRUE, v |-> 0]

(***************************************************************************)
(* C2: when the fetch of a purifier failed in a pass, then at the end of   *)
(* the pass every point labelled with its name is exactly as it was at the *)
(* end of the pass before: none created, none changed.                     *)
(***************************************************************************)
C2_FailedFetchLeavesPointsAsBefore ==
    pc = "sleep" =>
        \A k \in DOMAIN trace :
            trace[k].outcome \in Failures =>
                \A g \in Gauges :
                    Point(metrics, g, NameOf(trace[k].dev)) = Point(prev, g, NameOf(trace[k].dev))

(***************************************************************************)
(* C3: for any two different entries D and E of the list, a fetch of D     *)
(* that succeeds writes only points labelled with D's name and leaves      *)
(* every point of E unchanged.                                             *)
(***************************************************************************)
C3_FetchLeavesOtherEntriesPoints ==
    [][(pc = "poll" /\ trace' = Visit(idx, "ok")) =>
          /\ \A key \in Changed(metrics, metrics') : key[2] = NameOf(idx)
          /\ \A e \in DOMAIN purifiers :
                (e # idx /\ "name" \in purifiers[e].keys) =>
                    \A g \in Gauges :
                        Point(metrics', g, NameOf(e)) = Point(metrics, g, NameOf(e))]_vars

(***************************************************************************)
(* C4: a malformed response (a status-0 reading without its value or with  *)
(* a value that is no number) is handled as a failure of that purifier: it *)
(* is logged with the purifier's name, its points stay as they were, the   *)
(* pass goes on, and nothing propagates out of the pass.                   *)
(***************************************************************************)
C4_MalformedResponseIsolated ==
    \A k \in DOMAIN trace :
        trace[k].outcome \in Malformed =>
            /\ pc \in {"poll", "sleep"}
            /\ exit_code = -1
            /\ \E l \in DOMAIN log : log[l].name = NameOf(trace[k].dev)
            /\ k = 1 => metrics = prev

(***************************************************************************)
(* C5: a purifier without a connection handle after startup is never       *)
(* fetched and its handle is never created later; skipping it changes      *)
(* nothing and prints nothing, and the pass goes on to the next purifier   *)
(* or, after the last one, to the sleep.                                   *)
(***************************************************************************)
C5_AbsentHandleNeverFetched ==
    [][server =>
          /\ purifiers' = purifiers
          /\ (pc = "poll" /\ HandleAbsent(purifiers[idx])) =>
                /\ trace' = Visit(idx, "skip")
                /\ metrics' = metrics
                /\ properties' = properties
                /\ log' = log
                /\ stderr' = stderr
                /\ exit_code' = -1
                /\ idx' = idx + 1
                /\ pc' = IF idx = Len(purifiers) THEN "sleep" ELSE "poll"]_vars

\* The initialisation of the first purifier failed; a pass skipped it, fetched the
\* second one and reached the sleep.
C5_Witness ==
    /\ pc = "sleep"
    /\ Len(trace) = 2
    /\ Complete(purifiers[1])
    /\ "object" \in purifiers[1].keys /\ purifiers[1].object = "None"
    /\ trace[1].outcome = "skip"
    /\ trace[2].outcome = "ok"
    /\ metrics # prev

(***************************************************************************)
(* C6: an entry that lacks name, ip or token, whatever else it carries,    *)
(* gets no connection handle, is never fetched, and does not keep the      *)
(* other entries from being polled: the process keeps running.             *)
(***************************************************************************)
C6_IncompleteEntryNeverPolled ==
    \A e \in DOMAIN purifiers :
        ~Complete(purifiers[e]) =>
            /\ ~("object" \in purifiers[e].keys /\ purifiers[e].object = "handle")
            /\ \A k \in DOMAIN trace : trace[k].dev = e => trace[k].outcome = "skip"

(***************************************************************************)
(* C7: the runner has no terminal state: once startup has succeeded, then  *)
(* whatever the fetches of the purifiers with a handle do, the process is  *)
(* polling or sleeping.                                                    *)
(***************************************************************************)
C7_NoTerminalState ==
    (server /\ \A e \in DOMAIN purifiers : GetObject(purifiers[e]) \in {"None", "handle"})
        => (pc \in {"poll", "sleep"} /\ exit_code = -1)

(***************************************************************************)
(* C8: in each pass the purifiers are visited one at a time in the order   *)
(* of the list, each once; every purifier with a handle is fetched once,   *)
(* failed or not, and one that failed in an earlier pass is fetched again  *)
(* in its turn.                                                            *)
(***************************************************************************)
C8_OncePerCycleInOrder ==
    Polling =>
        /\ Len(trace) = IF pc = "sleep" THEN Len(purifiers) ELSE idx - 1
        /\ pc = "poll" => idx \in 1..Len(purifiers)
        /\ \A k \in DOMAIN trace :
              /\ trace[k].dev = k
              /\ (trace[k].outcome = "skip") = HandleAbsent(purifiers[k])
        /\ \A e \in failedEarlier :
              e \in DOMAIN trace => trace[e].outcome \in Failures \cup {"ok"}

\* A pass over two purifiers with handles: the first failed in an earlier pass and
\* fails again, the second is fetched after it.
C8_Witness ==
    /\ pc = "sleep"
    /\ failedEarlier = {1}
    /\ Len(trace) = 2
    /\ trace[1] = [dev |-> 1, outcome |-> "DeviceException"]
    /\ trace[2] = [dev |-> 2, outcome |-> "ok"]

(***************************************************************************)
(* C9 (MapperSpec): no point is written from a reading whose status code   *)
(* is not 0 or is missing: every point the fetch created or changed is the *)
(* gauge of a property that a status-0 reading of the response carries.    *)
(***************************************************************************)
C9_NonZeroCodeNeverWritten ==
    \A key \in Changed(prev, metrics) :
        \E k \in DOMAIN properties :
            /\ Recognised(properties[k])
            /\ key = <<GaugeOf(properties[k].did), NameOf(1)>>
            /\ pc # "crashed" => metrics[key] = Exported(properties[k])

\* The response holds a power reading with an error code and a value, and a status-0
\* aqi reading: aqi is written, power stays as it was.
C9_Witness ==
    /\ pc = "sleep"
    /\ Len(properties) = 2
    /\ properties[1] = Rd("power", -4001, Bool(TRUE))
    /\ properties[2] = Rd("aqi", 0, Num(12))
    /\ Point(prev, "mi_purifier_power", "a") = [set |-> TRUE, v |-> 0]
    /\ Point(metrics, "mi_purifier_power", "a") = [set |-> TRUE, v |-> 0]
    /\ Point(metrics, "mi_purifier_aqi", "a") = [set |-> TRUE, v |-> 12]

(***************************************************************************)
(* C10 (MapperSpec): a status-0 reading whose identifier is no key of the  *)
(* mapping table is discarded: no point is created or changed for it, and  *)
(* the recognised readings of the same response are written all the same.  *)
(***************************************************************************)
C10_UnknownIdentifierDiscarded ==
    (/\ trace # <<>>
     /\ \E k \in DOMAIN properties :
           /\ StatusZero(properties[k]) /\ WellFormed(properties[k])
           /\ properties[k].did \notin Range(MIOT_MAPPING))
    =>
    /\ \A key \in Changed(prev, metrics) :
          \E j \in DOMAIN properties :
              Recognised(properties[j]) /\ key = <<GaugeOf(properties[j].did), NameOf(1)>>
    /\ DOMAIN metrics \subseteq
          DOMAIN prev \cup {<<g, NameOf(1)>> : g \in Gauges}
    /\ (\A j \in DOMAIN properties :
            /\ StatusZero(properties[j]) => WellFormed(properties[j])
            /\ (Recognised(properties[j]) /\ properties[j].did # "power")
                  => Floatable(properties[j].value))
       => /\ pc = "sleep"
          /\ Published(properties, metrics, NameOf(1))

\* An unknown identifier with status 0 comes first and a power reading second: power
\* is written, nothing else changes.
C10_Witness ==
    /\ pc = "sleep"
    /\ Len(properties) = 2
    /\ properties[1] = Rd("bogus", 0, Text)
    /\ properties[2] = Rd("power", 0, Bool(TRUE))
    /\ prev # <<>>
    /\ Changed(prev, metrics) = {<<"mi_purifier_power", "a">>}
    /\ metrics[<<"mi_purifier_power", "a">>] = 1
(***************************************************************************)
(* What the data model says of a reading.                                  *)
(***************************************************************************)
\* the metric of each semantic name
MetricFor ==
    [power |-> "mi_purifier_power", mode |-> "mi_purifier_mode",
     aqi |-> "mi_purifier_aqi", temperature |-> "mi_purifier_temp",
     humidity |-> "mi_purifier_humidity", fault |-> "mi_purifier_fault",
     fan_speed_rpm |-> "mi_purifier_fan_speed_rpm",
     filter_life_remaining |-> "mi_purifier_filter_life_remaining_percent",
     filter_used_time |-> "mi_purifier_filter_used_time",
     filter_left_time |-> "mi_purifier_filter_left_time",
     favorite_level |-> "mi_purifier_favorite_level"]

\* the value counts as true
IsTrue(value) == value.t = "str" \/ value.v # 0
\* the number a status-0 reading of property d with this value stands for
Normalised(d, value) == IF d = "power" THEN (IF IsTrue(value) THEN 1 ELSE 0) ELSE value.v

\* the recognised readings of props that count: the last one of each property
Counted(props) ==
    {k \in DOMAIN props :
        /\ Recognised(props[k])
        /\ \A j \in DOMAIN props : (j > k /\ Recognised(props[j])) => props[j].did # props[k].did}

(***************************************************************************)
(* C11: a point is in the registry only if a fetch of a purifier of the    *)
(* point's name has returned the point's property with status 0 before;    *)
(* and a scrape returns a sample for a metric and a name only then: before *)
(* the first such reading it returns no sample for the pair, no 0 and no   *)
(* other value.                                                            *)
(***************************************************************************)
HasBeenRead(g, n) ==
    \E d \in Range(MIOT_MAPPING) : MetricFor[d] = g /\ <<d, n>> \in returned

C11_NoPointBeforeFirstReading ==
    /\ \A key \in DOMAIN metrics : HasBeenRead(key[1], key[2])
    /\ (scraped # <<>> /\ scraped.sample # <<>>) => HasBeenRead(scraped.gauge, scraped.name)

C11_Witness ==
    /\ scraped # <<>>
    /\ scraped.gauge = "mi_purifier_aqi" /\ scraped.name = "a"
    /\ scraped.sample = <<>>
    /\ ~HasBeenRead("mi_purifier_aqi", "a")
    /\ HasBeenRead("mi_purifier_power", "a")
    /\ <<"mi_purifier_power", "a">> \in DOMAIN metrics
    /\ pc = "sleep"

(***************************************************************************)
(* C12: every sample a scrape returns for a point is a number a set() call *)
(* has written to that point from a reading, whenever the scrape comes.    *)
(***************************************************************************)
C12_ScrapedValuesWereWritten ==
    (scraped # <<>> /\ scraped.sample # <<>>)
        => <<scraped.gauge, scraped.name, scraped.sample[1]>> \in written

(***************************************************************************)
(* C13: whenever a pass has ended, the registry holds exactly one point    *)
(* for each property and name that some fetch that went well has returned  *)
(* with status 0, and the point's value is the value of the last such      *)
(* reading, power as 0 or 1: the points of a purifier that answered are    *)
(* overwritten, those of a purifier whose fetch failed stay as they were.  *)
(***************************************************************************)
C13_PointsHoldLatestReading ==
    pc = "sleep" =>
        /\ \A key \in DOMAIN latest :
              Point(metrics, MetricFor[key[1]], key[2])
                  = [set |-> TRUE, v |-> Normalised(key[1], latest[key])]
        /\ \A key \in DOMAIN metrics :
              \E d \in Range(MIOT_MAPPING) :
                  MetricFor[d] = key[1] /\ <<d, key[2]>> \in DOMAIN latest

C13_Witness ==
    /\ pc = "sleep"
    /\ Len(trace) = 2
    /\ trace[1].outcome = "ok" /\ trace[2].outcome \in Failures
    /\ NameOf(1) # NameOf(2)
    /\ Point(prev, "mi_purifier_power", NameOf(1)) = [set |-> TRUE, v |-> 0]
    /\ Point(metrics, "mi_purifier_power", NameOf(1)) = [set |-> TRUE, v |-> 1]
    /\ Point(prev, "mi_purifier_aqi", NameOf(2)).set
    /\ Point(metrics, "mi_purifier_aqi", NameOf(2)) = Point(prev, "mi_purifier_aqi", NameOf(2))

(***************************************************************************)
(* C14: when the config path argument is absent, the config file is        *)
(* missing or does not parse, the purifiers list is missing, not a list or *)
(* empty, or the port argument is not an integer, the process never gets   *)
(* past startup: it makes no handle, starts no server and fetches nothing, *)
(* and when it has exited its status is non-zero and it has written a      *)
(* diagnostic on standard error.                                           *)
(***************************************************************************)
NotAnInteger(word) == word = "http"
StartupFatal ==
    \/ Len(argv) < 2
    \/ config.file \in {"missing", "not json"}
    \/ config.purifiers_field \in {"absent", "not a list", "empty"}
    \/ Len(argv) > 2 /\ NotAnInteger(argv[3])

C14_StartupFatalExitsFirst ==
    StartupFatal =>
        /\ pc \in {"start", "exited"}
        /\ purifiers = <<>>
        /\ ~server
        /\ trace = <<>> /\ properties = <<>> /\ metrics = <<>>
        /\ pc = "exited" => exit_code > 0 /\ stderr # ""

C14_Witness ==
    /\ pc = "exited"
    /\ Len(argv) = 3 /\ NotAnInteger(argv[3])
    /\ config.file = "ok" /\ config.purifiers_field = "list"
    /\ exit_code = 1

(***************************************************************************)
(* C15: the first pass begins as soon as the server is started, with no    *)
(* sleep before it; a sleep begins only when the pass has visited every    *)
(* purifier of the list, never between two purifiers, and sleeps for the   *)
(* interval of the config, 60 when the config has none; when the sleep     *)
(* ends the next pass begins at the first purifier.                        *)
(***************************************************************************)
ConfiguredInterval ==
    IF "polling_interval_seconds" \in config.keys
    THEN config.polling_interval_seconds ELSE 60

C15_PassThenOneSleep ==
    [][ /\ (pc = "init" /\ pc' # "init") =>
              pc' = "poll" /\ idx' = 1 /\ trace' = <<>> /\ sleeping' = -1
        /\ pc' = "sleep" =>
              /\ pc = "poll" /\ idx = Len(purifiers)
              /\ Len(trace') = Len(purifiers)
              /\ \A k \in DOMAIN trace' : trace'[k].dev = k
              /\ sleeping' = ConfiguredInterval
        /\ (pc = "poll" /\ pc' = "poll") =>
              idx < Len(purifiers) /\ idx' = idx + 1 /\ sleeping' = -1
        /\ pc = "sleep" => pc' = "poll" /\ idx' = 1 /\ trace' = <<>> /\ sleeping' = -1
      ]_vars

C15_Witness ==
    /\ pc = "sleep"
    /\ sleeping = 5
    /\ Len(purifiers) = 2 /\ Len(trace) = 2
    /\ trace[1].outcome = "ok" /\ trace[2].outcome = "DeviceException"
    /\ prev # <<>>

(***************************************************************************)
(* C16: a power point is 0 or 1 at all times; when a fetch has gone well,  *)
(* the power point is 1 if the status-0 power reading is true and 0 if it  *)
(* is false, and the point of every other property read with status 0 is  *)
(* the reading's value itself.                                             *)
(***************************************************************************)
C16_PowerIsZeroOrOne ==
    /\ \A n \in Names :
          Point(metrics, "mi_purifier_power", n).set
              => Point(metrics, "mi_purifier_power", n).v \in {0, 1}
    /\ pc = "sleep" =>
          \A k \in Counted(properties) :
              LET r == properties[k]
              IN IF r.did = "power"
                 THEN Point(metrics, "mi_purifier_power", NameOf(1))
                          = [set |-> TRUE, v |-> IF IsTrue(r.value) THEN 1 ELSE 0]
                 ELSE Point(metrics, MetricFor[r.did], NameOf(1))
                          = [set |-> TRUE, v |-> r.value.v]

C16_Witness ==
    /\ pc = "sleep"
    /\ Len(properties) = 2
    /\ properties[1] = Rd("power", 0, Num(12))
    /\ properties[2] = Rd("aqi", 0, Num(12))
    /\ Point(metrics, "mi_purifier_power", "a") = [set |-> TRUE, v |-> 1]
    /\ Point(metrics, "mi_purifier_aqi", "a") = [set |-> TRUE, v |-> 12]

(***************************************************************************)
(* C17: no step removes a point: every point of the registry is still     *)
(* there after the step, and its value is as before unless the step is a   *)
(* fetch of a purifier of the point's name that returned the point's       *)
(* property with status 0. A failed fetch, a skipped purifier, a response  *)
(* without the property and the sleep all leave the point as it was.       *)
(***************************************************************************)
C17_PointsAreNeverRemoved ==
    [][ \A key \in DOMAIN metrics :
           /\ key \in DOMAIN metrics'
           /\ metrics'[key] # metrics[key] =>
                 /\ pc = "poll"
                 /\ trace' = Append(trace, Last(trace'))
                 /\ Last(trace').dev = idx
                 /\ NameOf(idx) = key[2]
                 /\ \E k \in DOMAIN properties' :
                       /\ Recognised(properties'[k])
                       /\ MetricFor[properties'[k].did] = key[1]
      ]_vars

C17_Witness ==
    /\ pc = "sleep"
    /\ Len(trace) = 2
    /\ NameOf(1) # NameOf(2)
    /\ trace[1].outcome \in Failures
    /\ trace[2].outcome = "ok"
    /\ \E k \in DOMAIN properties : properties[k] = Unread("aqi")
    /\ Point(prev, "mi_purifier_aqi", NameOf(2)).set
    /\ Point(metrics, "mi_purifier_aqi", NameOf(2)) = Point(prev, "mi_purifier_aqi", NameOf(2))
    /\ Point(prev, "mi_purifier_power", NameOf(1)).set
    /\ Point(metrics, "mi_purifier_power", NameOf(1)) = Point(prev, "mi_purifier_power", NameOf(1))

(***************************************************************************)
(* C18: the eleven semantic names have eleven metrics, no two the same,    *)
(* and a fetch that goes well puts every status-0 reading of one of them   *)
(* on the metric of its name, for the purifier's name, and changes no      *)
(* point but those.                                                        *)
(***************************************************************************)
C18_EachNameItsOwnMetric ==
    /\ Cardinality(Range(MIOT_MAPPING)) = 11
    /\ {GaugeWrites[k].key : k \in DOMAIN GaugeWrites} = Range(MIOT_MAPPING)
    /\ \A k \in DOMAIN GaugeWrites :
          /\ GaugeWrites[k].gauge = MetricFor[GaugeWrites[k].key]
          /\ \A j \in DOMAIN GaugeWrites :
                j # k => /\ GaugeWrites[j].key # GaugeWrites[k].key
                         /\ GaugeWrites[j].gauge # GaugeWrites[k].gauge
    /\ pc = "sleep" =>
          /\ \A k \in Counted(properties) :
                Point(metrics, MetricFor[properties[k].did], NameOf(1))
                    = [set |-> TRUE,
                       v |-> Normalised(properties[k].did, properties[k].value)]
          /\ Changed(prev, metrics)
                \subseteq {<<MetricFor[properties[k].did], NameOf(1)>> :
                              k \in Counted(properties)}

C18_Witness ==
    /\ pc = "sleep"
    /\ prev = <<>>
    /\ properties = << Rd("temperature", 0, Num(12)), Rd("filter_life_remaining", 0, Num(12)) >>
    /\ DOMAIN metrics = { <<"mi_purifier_temp", "a">>,
                          <<"mi_purifier_filter_life_remaining_percent", "a">> }

(***************************************************************************)
(* C19: when a fetch has gone well, the point of every property the        *)
(* response does not carry with status 0 (its status is not 0, or the      *)
(* response has no reading of it) is what it was when the fetch began, set *)
(* or absent, and the point of every property it carries with status 0     *)
(* holds the reading.                                                      *)
(***************************************************************************)
C19_UnreadPropertiesKeepTheirPoints ==
    pc = "sleep" =>
        \A d \in Range(MIOT_MAPPING) :
            IF \E k \in DOMAIN properties : Recognised(properties[k]) /\ properties[k].did = d
            THEN \E k \in Counted(properties) :
                    /\ properties[k].did = d
                    /\ Point(metrics, MetricFor[d], NameOf(1))
                          = [set |-> TRUE, v |-> Normalised(d, properties[k].value)]
            ELSE Point(metrics, MetricFor[d], NameOf(1)) = Point(prev, MetricFor[d], NameOf(1))

C19_Witness ==
    /\ pc = "sleep"
    /\ properties = << Unread("aqi"), Rd("power", 0, Bool(TRUE)) >>
    /\ Point(prev, "mi_purifier_aqi", "a") = [set |-> TRUE, v |-> 7]
    /\ Point(metrics, "mi_purifier_aqi", "a") = [set |-> TRUE, v |-> 7]
    /\ Point(prev, "mi_purifier_power", "a") = [set |-> TRUE, v |-> 0]
    /\ Point(metrics, "mi_purifier_power", "a") = [set |-> TRUE, v |-> 1]
    /\ Point(metrics, "mi_purifier_mode", "a") = [set |-> FALSE, v |-> 0]

====
